---- MODULE Spec2Model ----
(***************************************************************************)
(* Model of src/node-server/server.ts: an Express application that         *)
(* delegates authentication to the Civic SDK.  A single browser (the       *)
(* cookie jar) sends requests; each request walks the Express layer stack  *)
(* in registration order.  The SDK (CivicAuth) is outside the repository;  *)
(* its four operations are modelled from the specification, section 4.2.   *)
(***************************************************************************)
EXTENDS Integers, Sequences, FiniteSets, TLC

\* ---------------------------------------------------------------- bounds
MaxRequests == 3      \* requests the browser sends in one behaviour
MaxInFlight == 2      \* requests handled concurrently
MaxAttempts == 2      \* login attempts (state parameters) the provider issues

\* ------------------------------------------------------------- constants
Absent == -1          \* req.cookies[key] undefined / storage.get() null
Empty == 0            \* the empty string: value written by res.clearCookie
NoObj == 0            \* req.storage / req.civicAuth undefined

Rids == 1..MaxRequests
Attempts == 1..MaxAttempts
CookieNames == {"code_verifier", "id_token"}
Paths == {"/", "/auth/logout", "/auth/callback", "/auth/profile", "/auth/other"}
Scopes == {"openid", "wallet", "email", "profile"}

VARIABLES
    expressMajor,   \* major version of the express dependency the build resolved
    jar,            \* the browser's cookies: name -> value (Absent when not held)
    issued,         \* provider: number of login attempts issued so far
    used,           \* provider: attempts whose authorization code was exchanged
    req,            \* rid -> the request/response pair and its position
    sent,           \* number of requests the browser has sent
    storages,       \* ExpressCookieStorage instances: id -> [req]
    gateways,       \* CivicAuth instances: id -> [storage]
    hist            \* history: what last changed the browser's session:
                    \* "login" (a callback's cookies), "logout", or "initial"

vars == <<expressMajor, jar, issued, used, req, sent, storages, gateways, hist>>

\* ------------------------------------------------------- request records
NoOp == [op |-> "none", val |-> Absent, expires |-> "none"]
NoLocation == [to |-> "none", scopes |-> {}, state |-> 0]
NoUser == [email |-> 0, id |-> 0, name |-> 0]

NewReq ==
    [phase |-> "new", path |-> "/", code |-> 0, state |-> 0,
     cookies |-> [k \in CookieNames |-> Absent],
     storage |-> NoObj, civicAuth |-> NoObj,
     at |-> 0, ran |-> <<>>, calls |-> {}, failed |-> FALSE,
     status |-> 0, sends |-> 0, body |-> "", location |-> NoLocation,
     user |-> NoUser, ops |-> [k \in CookieNames |-> NoOp],
     gate |-> "none", reused |-> FALSE, since |-> "initial"]

\* ------------------------------------------------------ the layer stack
\* app.use / app.get in registration order (cors and cookieParser answer
\* no request of the model and are folded into Arrive).
\* the gate registered ahead of the routes it is meant to protect
Layers_gateFirst == <<"init", "root", "gate", "logout", "callback", "profile">>

Layers == <<"init", "root", "logout", "callback", "gate", "profile">>

Matches(layer, path) ==
    CASE layer = "init"     -> TRUE
      [] layer = "root"     -> path = "/"
      [] layer = "logout"   -> path = "/auth/logout"
      [] layer = "callback" -> path = "/auth/callback"
      [] layer = "gate"     -> path \in {"/auth/logout", "/auth/callback",
                                         "/auth/profile", "/auth/other"}
      [] layer = "profile"  -> path = "/auth/profile"

\* Express router: the first layer after position i that matches the path;
\* Len(Layers) + 1 is the final handler.
NextIdx(path, i) ==
    LET later == {j \in (i + 1)..Len(Layers) : Matches(Layers[j], path)}
    IN  IF later = {} THEN Len(Layers) + 1
        ELSE CHOOSE j \in later : \A k \in later : j <= k

AtLayer(r, layer) ==
    /\ r.phase = "run"
    /\ r.at \in 1..Len(Layers)
    /\ Layers[r.at] = layer

\* next(): hand the request to the next matching layer
next(r) == [r EXCEPT !.at = NextIdx(r.path, r.at)]

\* next(err): hand the request to the error handler
nextErr(r) == [r EXCEPT !.phase = "error", !.failed = TRUE]

\* res.status(s).send(body)
send(r, s, b) ==
    [r EXCEPT !.status = s, !.body = b, !.sends = @ + 1, !.phase = "done"]

Ran(r, layer) == [r EXCEPT !.ran = Append(@, layer)]

\* ------------------------------------------------ ExpressCookieStorage
\* get that reads one fixed cookie whatever key it is asked for
get_fixedKey(r, key) == r.cookies["code_verifier"]

get(r, key) == r.cookies[key]

set(r, key, value) ==
    [r EXCEPT !.ops[key] = [op |-> "cookie", val |-> value, expires |-> "future"]]

\* res.clearCookie(key, settings): express 4 lets settings.expires (7 days
\* from now) override the epoch date, express 5 always sends the epoch.
delete(r, key) ==
    [r EXCEPT !.ops[key] =
        [op |-> "clearCookie", val |-> Empty,
         expires |-> IF expressMajor = 4 THEN "future" ELSE "past"]]

\* ------------------------------------------------------------ CivicAuth
\* the session token the request carries, Absent/Empty when it has none
HasSession(r) == get(r, "id_token") \in Attempts

isLoggedIn(r) == IF HasSession(r) THEN {"true", "error"} ELSE {"false"}

Profile(t) == [email |-> t, id |-> t, name |-> t]

getUser(r) == IF HasSession(r) THEN {"ok", "error"} ELSE {"null"}

buildLoginUrl == {"ok", "error"}

StateMatches(r) ==
    /\ r.state \in 1..issued
    /\ r.code = r.state
    /\ r.state \notin used
    /\ get(r, "code_verifier") = r.state

resolveOAuthAccessCode(r) == IF StateMatches(r) THEN {"ok", "error"} ELSE {"error"}

\* The server has just started.  The express version is whatever the build
\* resolved.  The browser is Anonymous (no cookies) or Authenticated by an
\* earlier login (attempt 1 issued and exchanged, its cookies held).  Cookies
\* live 7 days; a behaviour spans less, so none expires.
Init ==
    /\ expressMajor \in {4, 5}
    /\ \E a \in {0, 1} :
          /\ jar = [k \in CookieNames |-> IF a = 0 THEN Absent ELSE a]
          /\ issued = a
          /\ used = 1..a
    /\ req = [i \in Rids |-> NewReq]
    /\ sent = 0
    /\ storages = <<>>
    /\ gateways = <<>>
    /\ hist = "initial"

InFlight == {i \in Rids : req[i].phase \notin {"new", "gone"}}

\* one storage and one gateway created for the first request and kept
perRequestMiddleware_shared(r, i, ss, gs) ==
    IF ss = <<>>
    THEN [r |-> next(Ran([r EXCEPT !.storage = 1, !.civicAuth = 1], "init")),
          storages |-> <<[req |-> i]>>,
          gateways |-> <<[storage |-> 1]>>]
    ELSE [r |-> next(Ran([r EXCEPT !.storage = 1, !.civicAuth = 1], "init")),
          storages |-> ss,
          gateways |-> gs]

\* app.use((req, res, next) => { req.storage = new ExpressCookieStorage(req, res);
\*                                req.civicAuth = new CivicAuth(req.storage, config);
\*                                next() })
\* i is the request, ss and gs the instances created so far.
perRequestMiddleware(r, i, ss, gs) ==
    [r |-> next(Ran([r EXCEPT !.storage = Len(ss) + 1,
                              !.civicAuth = Len(gs) + 1], "init")),
     storages |-> Append(ss, [req |-> i]),
     gateways |-> Append(gs, [storage |-> Len(ss) + 1])]

\* The browser sends a request with the cookies it holds; cookieParser fills
\* req.cookies and the synchronous leading middleware runs in the same turn
\* of the event loop, up to the first handler that matches the path.
\* code is 0 (not a code the provider issued) or the code of attempt state;
\* state is 0 (malformed or never issued) or an attempt the provider issued.
Arrive(i, path, code, state) ==
    /\ i = sent + 1
    /\ i <= MaxRequests
    /\ Cardinality(InFlight) < MaxInFlight
    /\ path = "/" =>
         issued + Cardinality({j \in InFlight : req[j].path = "/"}) < MaxAttempts
    /\ path # "/auth/callback" => code = 0 /\ state = 0
    /\ code \in {0, state}
    /\ state <= issued
    /\ sent' = i
    /\ LET r0 == [NewReq EXCEPT !.phase = "run", !.path = path, !.code = code,
                                !.state = state, !.cookies = jar,
                                !.at = NextIdx(path, 0),
                                !.since = hist]
           m  == perRequestMiddleware(r0, i, storages, gateways)
       IN  IF AtLayer(r0, "init")
           THEN /\ req' = [req EXCEPT ![i] = m.r]
                /\ storages' = m.storages
                /\ gateways' = m.gateways
           ELSE /\ req' = [req EXCEPT ![i] = r0]
                /\ UNCHANGED <<storages, gateways>>
    /\ UNCHANGED <<expressMajor, jar, issued, used, hist>>

\* ------------------------------------------------------------- handlers
called(r, op) == [r EXCEPT !.calls = @ \cup {op}]

\* res.redirect(url)
redirect(r, loc) == [send(r, 302, "") EXCEPT !.location = loc]

\* res.json(body)
json(r, u) == [send(r, 200, "Authenticated profile") EXCEPT !.user = u]

\* a rejected promise of a handler express got directly: express 5 passes
\* the rejection to next(err); express 4 drops it and nothing answers.
unhandled(r) ==
    IF expressMajor = 5 THEN nextErr(r)
    ELSE [r EXCEPT !.phase = "hung", !.failed = TRUE]

\* asyncHandler(fn): Promise.resolve(fn(req, res, next)).catch(next)
asyncHandler(r) == nextErr(r)

\* the login URL built without the openid scope
rootHandler_noOpenid(r, o, a) ==
    IF r.civicAuth = NoObj THEN send(r, 500, "CivicAuth is not initialized.")
    ELSE IF o = "ok"
         THEN redirect(set(called(r, "buildLoginUrl"), "code_verifier", a),
                       [to |-> "login", scopes |-> Scopes \ {"openid"}, state |-> a])
         ELSE unhandled(called(r, "buildLoginUrl"))

\* app.get("/", ...), o the outcome of buildLoginUrl, a the attempt it issues
rootHandler(r, o, a) ==
    IF r.civicAuth = NoObj THEN send(r, 500, "CivicAuth is not initialized.")
    ELSE IF o = "ok"
         THEN redirect(set(called(r, "buildLoginUrl"), "code_verifier", a),
                       [to |-> "login", scopes |-> Scopes, state |-> a])
         ELSE unhandled(called(r, "buildLoginUrl"))

RECURSIVE deleteAll(_, _)
deleteAll(r, keys) ==
    IF keys = {} THEN r
    ELSE LET k == CHOOSE x \in keys : TRUE
         IN  deleteAll(delete(r, k), keys \ {k})

\* Object.keys(req.cookies)
Keys(r) == {k \in CookieNames : r.cookies[k] # Absent}

\* logout that answers without clearing anything
logoutHandler_noDelete(r) ==
    IF r.civicAuth = NoObj \/ r.storage = NoObj
    THEN send(r, 500, "CivicAuth or storage not initialized.")
    ELSE send(r, 200, "Logout successfully.")

\* logout that clears every cookie name the SDK knows, sent or not
logoutHandler_allNames(r) ==
    IF r.civicAuth = NoObj \/ r.storage = NoObj
    THEN send(r, 500, "CivicAuth or storage not initialized.")
    ELSE send(deleteAll(r, CookieNames), 200, "Logout successfully.")

\* app.get("/auth/logout", asyncHandler(...))
logoutHandler(r) ==
    IF r.civicAuth = NoObj \/ r.storage = NoObj
    THEN send(r, 500, "CivicAuth or storage not initialized.")
    ELSE send(deleteAll(r, Keys(r)), 200, "Logout successfully.")

\* the redirect placed after the try/catch instead of inside the try
callbackHandler_redirectAlways(r, o) ==
    IF r.civicAuth = NoObj THEN send(r, 500, "CivicAuth is not initialized.")
    ELSE IF o = "ok"
         THEN redirect(set(called(r, "resolveOAuthAccessCode"), "id_token", r.state),
                       [to |-> "landing", scopes |-> {}, state |-> 0])
         ELSE [redirect(called(r, "resolveOAuthAccessCode"),
                        [to |-> "landing", scopes |-> {}, state |-> 0])
                 EXCEPT !.failed = TRUE]

\* app.get("/auth/callback", ...), o the outcome of resolveOAuthAccessCode
callbackHandler(r, o) ==
    IF r.civicAuth = NoObj THEN send(r, 500, "CivicAuth is not initialized.")
    ELSE IF o = "ok"
         THEN redirect(set(called(r, "resolveOAuthAccessCode"), "id_token", r.state),
                       [to |-> "landing", scopes |-> {}, state |-> 0])
         ELSE [send(called(r, "resolveOAuthAccessCode"), 500,
                    "Failed to complete login.") EXCEPT !.failed = TRUE]

\* the gate without its return after the 401: the chain goes on
authMiddleware_noReturn(r, o) ==
    IF r.civicAuth = NoObj
    THEN [send(r, 401, "Unauthorized") EXCEPT !.gate = "absent"]
    ELSE LET c == [called(r, "isLoggedIn") EXCEPT !.gate = o]
         IN  CASE o = "false" -> next([send(c, 401, "Unauthorized")
                                         EXCEPT !.phase = "run"])
               [] o = "true"  -> next(c)
               [] o = "error" -> nextErr(c)

\* authMiddleware, o the outcome of isLoggedIn
authMiddleware(r, o) ==
    IF r.civicAuth = NoObj
    THEN [send(r, 401, "Unauthorized") EXCEPT !.gate = "absent"]
    ELSE LET c == [called(r, "isLoggedIn") EXCEPT !.gate = o]
         IN  CASE o = "false" -> send(c, 401, "Unauthorized")
               [] o = "true"  -> next(c)
               [] o = "error" -> nextErr(c)

\* the profile built from the wrong record: the named fields left unset
profileHandler_noFields(r, o1, o2) ==
    IF r.civicAuth = NoObj THEN send(r, 500, "CivicAuth is not initialized.")
    ELSE LET c1 == called(r, "isLoggedIn")
             c2 == called(c1, "getUser")
         IN  CASE o1 = "false" -> send(c1, 401, "Not logged in.")
               [] o1 = "error" -> asyncHandler(c1)
               [] o1 = "true" /\ o2 = "ok" -> json(c2, NoUser)
               [] o1 = "true" /\ o2 # "ok" -> asyncHandler(c2)

\* app.get("/auth/profile", asyncHandler(...)), o1 the outcome of
\* isLoggedIn, o2 the outcome of getUser
profileHandler(r, o1, o2) ==
    IF r.civicAuth = NoObj THEN send(r, 500, "CivicAuth is not initialized.")
    ELSE LET c1 == called(r, "isLoggedIn")
             c2 == called(c1, "getUser")
             user == Profile(get(r, "id_token"))
         IN  CASE o1 = "false" -> send(c1, 401, "Not logged in.")
               [] o1 = "error" -> asyncHandler(c1)
               [] o1 = "true" /\ o2 = "ok" ->
                    json(c2, [email |-> user.email, id |-> user.id,
                              name |-> user.name])
               [] o1 = "true" /\ o2 # "ok" -> asyncHandler(c2)

\* ------------------------------------------------------------- actions
RootHandler(i) ==
    /\ AtLayer(req[i], "root")
    /\ \E o \in buildLoginUrl :
          /\ req' = [req EXCEPT ![i] = rootHandler(Ran(@, "root"), o, issued + 1)]
          /\ issued' = IF o = "ok" /\ req[i].civicAuth # NoObj
                       THEN issued + 1 ELSE issued
    /\ UNCHANGED <<expressMajor, jar, used, sent, storages, gateways,
                   hist>>

LogoutHandler(i) ==
    /\ AtLayer(req[i], "logout")
    /\ req' = [req EXCEPT ![i] = logoutHandler(Ran(@, "logout"))]
    /\ UNCHANGED <<expressMajor, jar, issued, used, sent, storages, gateways,
                   hist>>

CallbackHandler(i) ==
    /\ AtLayer(req[i], "callback")
    /\ \E o \in resolveOAuthAccessCode(req[i]) :
          /\ req' = [req EXCEPT ![i] =
               callbackHandler([Ran(@, "callback") EXCEPT
                                   !.reused = (req[i].state \in used)], o)]
          /\ used' = IF o = "ok" /\ req[i].civicAuth # NoObj
                     THEN used \cup {req[i].state} ELSE used
    /\ UNCHANGED <<expressMajor, jar, issued, sent, storages, gateways,
                   hist>>

AuthMiddleware(i) ==
    /\ AtLayer(req[i], "gate")
    /\ \E o \in isLoggedIn(req[i]) :
          req' = [req EXCEPT ![i] = authMiddleware(Ran(@, "gate"), o)]
    /\ UNCHANGED <<expressMajor, jar, issued, used, sent, storages, gateways,
                   hist>>

ProfileHandler(i) ==
    /\ AtLayer(req[i], "profile")
    /\ \E o1 \in isLoggedIn(req[i]), o2 \in getUser(req[i]) :
          req' = [req EXCEPT ![i] = profileHandler(Ran(@, "profile"), o1, o2)]
    /\ UNCHANGED <<expressMajor, jar, issued, used, sent, storages, gateways,
                   hist>>

\* express's final handler: no layer answered
FinalHandler(i) ==
    /\ req[i].phase = "run"
    /\ req[i].at = Len(Layers) + 1
    /\ req' = [req EXCEPT ![i] = send(Ran(@, "final"), 404, "Not Found")]
    /\ UNCHANGED <<expressMajor, jar, issued, used, sent, storages, gateways,
                   hist>>

\* express's default error handler: the app registers none of its own
ErrorHandler(i) ==
    /\ req[i].phase = "error"
    /\ req' = [req EXCEPT ![i] = send(Ran(@, "error"), 500, "Internal Server Error")]
    /\ UNCHANGED <<expressMajor, jar, issued, used, sent, storages, gateways,
                   hist>>

\* the browser applies one Set-Cookie header
Store(old, o) ==
    CASE o.op = "none"        -> old
      [] o.expires = "past"   -> Absent
      [] OTHER                -> o.val

Gone == [NewReq EXCEPT !.phase = "gone"]

\* The browser receives the response and applies its Set-Cookie headers.
Deliver(i) ==
    LET r == req[i]
        login == r.ops["id_token"].op = "cookie"
        logout == r.path = "/auth/logout" /\ r.status = 200
        covers == \A k \in CookieNames : jar[k] # Absent => r.cookies[k] # Absent
    IN  /\ r.phase = "done"
        /\ jar' = [k \in CookieNames |-> Store(jar[k], r.ops[k])]
        /\ hist' = IF login THEN "login"
                   ELSE IF logout /\ covers THEN "logout" ELSE hist
        /\ req' = [req EXCEPT ![i] = Gone]
        /\ UNCHANGED <<expressMajor, issued, used, sent, storages, gateways>>

\* The browser gives up on a request nothing answers.
ClientTimeout(i) ==
    /\ req[i].phase = "hung"
    /\ req' = [req EXCEPT ![i] = Gone]
    /\ UNCHANGED <<expressMajor, jar, issued, used, sent, storages, gateways,
                   hist>>

Next ==
    \/ \E i \in Rids, p \in Paths, c \in 0..MaxAttempts, s \in 0..MaxAttempts :
          Arrive(i, p, c, s)
    \/ \E i \in Rids : RootHandler(i)
    \/ \E i \in Rids : LogoutHandler(i)
    \/ \E i \in Rids : CallbackHandler(i)
    \/ \E i \in Rids : AuthMiddleware(i)
    \/ \E i \in Rids : ProfileHandler(i)
    \/ \E i \in Rids : FinalHandler(i)
    \/ \E i \in Rids : ErrorHandler(i)
    \/ \E i \in Rids : Deliver(i)
    \/ \E i \in Rids : ClientTimeout(i)

Spec == Init /\ [][Next]_vars

\* ---------------------------------------------------------------- claims
Live == {i \in Rids : req[i].phase \notin {"new", "gone"}}
Answered(r) == r.phase = "done"
IsProfile(r) == r.path = "/auth/profile"
IsLogout(r) == r.path = "/auth/logout"
IsCallback(r) == r.path = "/auth/callback"
IsRoot(r) == r.path = "/"
\* the request carries a session token the provider issued
ValidToken(r) == r.cookies["id_token"] \in 1..issued
Last(q) == q[Len(q)]
Range(q) == {q[n] : n \in 1..Len(q)}

\* C1: a GET /auth/profile request whose cookies hold no valid session is
\* answered 401; getUser is never called for it and no user record is sent.
C1_ProfileWithoutSession ==
    \A i \in Live :
        IsProfile(req[i]) /\ ~ValidToken(req[i]) =>
            /\ "getUser" \notin req[i].calls
            /\ req[i].user = NoUser
            /\ req[i].phase \in {"run", "done"}
            /\ Answered(req[i]) => req[i].status = 401 /\ req[i].sends = 1

C1_Witness ==
    \E i \in Live :
        /\ IsProfile(req[i]) /\ ~ValidToken(req[i]) /\ Answered(req[i])
        /\ req[i].status = 401
        /\ "isLoggedIn" \in req[i].calls

\* C2 as stated: every GET /auth/profile carrying the session cookies a
\* successful callback wrote is answered 200 with that session's Profile.
C2_ProfileAlways200 ==
    \A i \in Live :
        IsProfile(req[i]) /\ ValidToken(req[i]) /\ Answered(req[i]) =>
            /\ req[i].status = 200
            /\ req[i].user = Profile(req[i].cookies["id_token"])

\* C2 amended: such a request is answered 200 with that session's Profile
\* unless isLoggedIn or getUser fails with a provider/transport error, and
\* then it is answered 500; it is never answered 401.
C2_Profile200UnlessTransportError ==
    \A i \in Live :
        IsProfile(req[i]) /\ ValidToken(req[i]) /\ Answered(req[i]) =>
            \/ /\ ~req[i].failed
               /\ req[i].status = 200
               /\ req[i].user = Profile(req[i].cookies["id_token"])
            \/ /\ req[i].failed
               /\ req[i].status = 500
               /\ req[i].user = NoUser

C2_Witness ==
    \E i \in Live :
        /\ IsProfile(req[i]) /\ Answered(req[i])
        /\ req[i].since = "login"
        /\ req[i].status = 200
        /\ req[i].user = Profile(jar["id_token"])
        /\ jar["id_token"] \in 1..issued

\* C3: every GET /auth/logout is answered 200, whatever the session state
\* and the cookies, a second one in a row included; a GET /auth/profile the
\* browser sends after a logout was applied is answered 401.
C3_LogoutIdempotent ==
    \A i \in Live :
        /\ IsLogout(req[i]) /\ Answered(req[i]) =>
              req[i].status = 200 /\ req[i].sends = 1
        /\ IsLogout(req[i]) => req[i].phase \in {"run", "done"}
        /\ IsProfile(req[i]) /\ req[i].since = "logout" =>
              /\ req[i].phase \in {"run", "done"}
              /\ Answered(req[i]) => req[i].status = 401

C3_Witness ==
    \E i, j \in Live :
        /\ IsLogout(req[i]) /\ req[i].since = "logout" /\ Answered(req[i])
        /\ req[i].status = 200
        /\ IsProfile(req[j]) /\ req[j].since = "logout" /\ Answered(req[j])
        /\ req[j].status = 401

BadState(r) ==
    \/ r.state = 0
    \/ r.cookies["code_verifier"] # r.state
    \/ r.reused

\* C5: a GET /auth/callback whose state is malformed, reused or unmatched is
\* answered 500 with the generic message, never 200 nor the redirect to the
\* landing page, and it writes no session cookie.
C5_BadStateIs500 ==
    \A i \in Live :
        IsCallback(req[i]) /\ "callback" \in Range(req[i].ran) /\ BadState(req[i]) =>
            /\ Answered(req[i])
            /\ req[i].status = 500
            /\ req[i].body = "Failed to complete login."
            /\ req[i].location.to = "none"
            /\ req[i].ops["id_token"].op = "none"
            /\ req[i].sends = 1

C5_Witness ==
    \E i \in Live :
        /\ IsCallback(req[i]) /\ Answered(req[i])
        /\ req[i].reused
        /\ req[i].state \in 1..issued
        /\ req[i].code = req[i].state
        /\ req[i].cookies["code_verifier"] = req[i].state
        /\ req[i].status = 500

\* C6: a request in which a gateway or adapter operation failed is answered
\* with exactly one response, and that response is a 500.
C6_FailureIsOne500 ==
    \A i \in Live :
        req[i].failed /\ req[i].phase \in {"done", "hung"} =>
            req[i].sends = 1 /\ req[i].status = 500

\* C7: at the gate, isLoggedIn false (or no gateway) gives 401 and ends the
\* chain; a transport error goes to the error handler and no protected
\* handler runs; only on true does the next handler run, and the gate then
\* sends nothing itself.
C7_GateVerdicts ==
    \A i \in Live :
        LET r == req[i] IN
        "gate" \in Range(r.ran) =>
            /\ r.gate \in {"false", "absent"} =>
                  /\ Answered(r) /\ r.status = 401 /\ r.sends = 1
                  /\ Last(r.ran) = "gate"
            /\ r.gate = "error" =>
                  /\ "profile" \notin Range(r.ran)
                  /\ "final" \notin Range(r.ran)
                  /\ \/ r.phase = "error" /\ r.sends = 0
                     \/ Answered(r) /\ r.status = 500 /\ Last(r.ran) = "error"
            /\ r.gate = "true" /\ Last(r.ran) = "gate" =>
                  r.sends = 0 /\ r.status = 0 /\ r.phase = "run"
            /\ ("profile" \in Range(r.ran) \/ "final" \in Range(r.ran)) =>
                  r.gate = "true"
            /\ r.gate = "true" <=> r.cookies["id_token"] \in 1..issued /\ r.gate # "error"
            /\ r.gate \in {"true", "false", "error", "absent"}

C7_Witness ==
    \E i, j \in Live :
        /\ req[i].gate = "true" /\ Last(req[i].ran) = "profile"
        /\ req[j].gate = "false" /\ Answered(req[j]) /\ req[j].status = 401

\* C8 as stated: for every request under /auth, /auth/logout and
\* /auth/callback included, the gate's isLoggedIn check has run before a
\* response is sent.
C8_GateOnEveryAuthPath ==
    \A i \in Live :
        req[i].path # "/" /\ req[i].sends > 0 =>
            "gate" \in Range(req[i].ran) /\ "isLoggedIn" \in req[i].calls

\* C8 amended: the gate runs first for the requests under /auth that no
\* earlier route answers (/auth/profile and the paths with no route); it
\* never runs for /auth/logout and /auth/callback, whose handlers are
\* registered ahead of it and answer without calling next.
C8_GateAfterLogoutAndCallback ==
    \A i \in Live :
        LET r == req[i] IN
        /\ r.path \in {"/auth/profile", "/auth/other"} /\ Len(r.ran) > 1 =>
              r.ran[2] = "gate" /\ "isLoggedIn" \in r.calls
        /\ r.path \in {"/auth/profile", "/auth/other"} /\ r.sends > 0 =>
              Len(r.ran) > 1
        /\ r.path \in {"/auth/logout", "/auth/callback"} =>
              /\ "gate" \notin Range(r.ran)
              /\ "isLoggedIn" \notin r.calls
              /\ r.gate = "none"

C8_Witness ==
    \E i, j \in Live :
        /\ IsLogout(req[i]) /\ Answered(req[i]) /\ req[i].status = 200
        /\ ~ValidToken(req[i])
        /\ req[j].path = "/auth/other" /\ Answered(req[j])
        /\ req[j].ran = <<"init", "gate">>

\* C9: GET /auth/logout clears through the adapter exactly the cookie names
\* on the request, sets no cookie, calls no gateway operation, and is
\* answered 200.
C9_LogoutClearsRequestCookies ==
    \A i \in Live :
        IsLogout(req[i]) /\ Answered(req[i]) =>
            /\ {k \in CookieNames : req[i].ops[k].op = "clearCookie"}
                 = {k \in CookieNames : req[i].cookies[k] # Absent}
            /\ \A k \in CookieNames : req[i].ops[k].op # "cookie"
            /\ req[i].calls = {}
            /\ req[i].status = 200

C9_Witness ==
    \E i \in Live :
        /\ IsLogout(req[i]) /\ Answered(req[i])
        /\ req[i].cookies["code_verifier"] # Absent
        /\ req[i].cookies["id_token"] = Absent
        /\ req[i].ops["code_verifier"].op = "clearCookie"
        /\ req[i].ops["id_token"].op = "none"

\* C10: whatever the interleaving, every request has one storage and one
\* gateway of its own, created before any route handler runs: the gateway
\* bound to that storage, the storage to that request; no instance serves
\* two requests.
C10_OneInstancePerRequest ==
    /\ \A i \in Live :
          /\ req[i].ran # <<>> => req[i].ran[1] = "init"
          /\ req[i].storage \in 1..Len(storages)
          /\ req[i].civicAuth \in 1..Len(gateways)
          /\ storages[req[i].storage].req = i
          /\ gateways[req[i].civicAuth].storage = req[i].storage
    /\ \A i, j \in Live :
          i # j => /\ req[i].storage # req[j].storage
                   /\ req[i].civicAuth # req[j].civicAuth
    /\ \A a, b \in 1..Len(storages) : a # b => storages[a].req # storages[b].req
    /\ \A a, b \in 1..Len(gateways) :
          a # b => gateways[a].storage # gateways[b].storage
    /\ Len(storages) = sent
    /\ Len(gateways) = sent

C10_Witness ==
    \E i, j \in Live :
        /\ i # j
        /\ Len(req[i].ran) > 1 /\ Len(req[j].ran) > 1
        /\ req[i].storage # req[j].storage
        /\ storages[req[j].storage].req = j
====
